---------------------------- MODULE Spec2Model ----------------------------
(***************************************************************************)
(* The BMI dashboard of src/app.py as a state machine.                     *)
(*                                                                         *)
(* State: the table bmi_history (store), the AUTOINCREMENT counter kept in *)
(* sqlite_sequence (seq), the wall clock, and what the last script run     *)
(* rendered (selected_name, user_df, latest, prev, msg).  Every user       *)
(* interaction is one run of the script from top to bottom; a handler that *)
(* ends in st.rerun() is followed by a second run in the same action.      *)
(*                                                                         *)
(* Units.  Heights are whole centimetres, weights are tenths of a          *)
(* kilogram, BMI values are exact fractions <<num, den>> before rounding   *)
(* and hundredths after rounding.  Arithmetic is exact: binary floating    *)
(* point error of the Python build is not modelled.                        *)
(* A date "YYYY-MM-DD HH:MM" is modelled by the number of its minute: the  *)
(* lexicographic order of those strings is the order of those numbers.     *)
(***************************************************************************)
EXTENDS Integers, Sequences, FiniteSets, TLC

VARIABLES
    store,          \* rows of bmi_history: a set of records
    seq,            \* sqlite_sequence.seq of bmi_history: largest id ever issued
    issued,         \* history variable: the ids issued so far, in order of issue
    clock,          \* datetime.now(), in ticks
    selected_name,  \* value of the selectbox in the last run ("" when none)
    user_df,        \* user_df of the last run: a sequence of rows
    latest,         \* latest of the last run (NoRecord when the run stopped early)
    prev,           \* prev of the last run (NoRecord for None)
    msg,            \* sidebar message shown by the last run
    last_op,        \* history variable: what the last interaction did
    calc            \* inputs and outputs of one calorie / status analysis

vars == <<store, seq, issued, clock, selected_name, user_df,
          latest, prev, msg, last_op, calc>>

storeVars == <<store, seq, issued, clock, selected_name, user_df,
               latest, prev, msg, last_op>>

-----------------------------------------------------------------------------
(* Bounds of the model: the ids issued, the clock in ticks, the ticks of a  *)
(* minute, and the largest bmi analysed (in hundredths).                    *)

MaxId == 3
MaxClock == 2
TicksPerMinute == 2
MaxBmi == 3700

(* Inputs of the history-oriented specification Spec: one valid measurement, *)
(* two subjects, and the two invalid inputs the save handler rejects.        *)
Names == {"", "kim", "lee"}
Heights == {0, 170}
Weights == {700}

(* Inputs of the measurement-oriented specification SpecMeasure. *)
MeasureNames == {"", "kim"}
MeasureHeights == {0, 163}
MeasureWeights == {0, 611, 700}

IdRange == 1..MaxId

(* The target BMI widget: min_value, value (the default) and max_value. *)
MinTargetBmi == 10
DefaultTargetBmi == 22
MaxTargetBmi == 40

(* Inputs of the analysis specification SpecCalc, BMI values in hundredths. *)
BmiInputs == 0..MaxBmi
TargetInputs ==
    {100 * MinTargetBmi, 100 * (DefaultTargetBmi - 1), 100 * DefaultTargetBmi,
     100 * DefaultTargetBmi + 50, 100 * (DefaultTargetBmi + 1), 100 * MaxTargetBmi}
TdeeInputs == {0, 2000}

IdleCalc ==
    [pc |-> "idle", bmi |-> 0, target_bmi |-> 0, tdee |-> 0,
     status |-> "", cal |-> 0, plan |-> "", comment |-> ""]

NoRecord ==
    [id |-> 0, name |-> "", date |-> 0, height |-> 0, weight |-> 0,
     bmi |-> 0, status |-> ""]

-----------------------------------------------------------------------------
(* Pure functions of src/app.py *)

(* bmi_calc: weight / ((height / 100) ** 2) as the exact fraction            *)
(* (w/10) / (h*h/10000) = 1000*w / (h*h), for h in cm and w in tenths of kg. *)
bmi_calc(height, weight) == <<1000 * weight, height * height>>

(* bmi_status on the fraction num/den (den > 0); 18.5 is 37/2.               *)
(* The six Korean labels of the source are written in English, in the       *)
(* order of the branches: severely_obese, obese2 (stage 2), obese1          *)
(* (stage 1), overweight, normal, underweight.                               *)
bmi_status_shifted(num, den) ==
    IF num > 35 * den THEN "severely_obese"
    ELSE IF num > 30 * den THEN "obese2"
    ELSE IF num > 25 * den THEN "obese1"
    ELSE IF num > 23 * den THEN "overweight"
    ELSE IF 2 * num > 37 * den THEN "normal"
    ELSE "underweight"

bmi_status(num, den) ==
    IF num >= 35 * den THEN "severely_obese"
    ELSE IF num >= 30 * den THEN "obese2"
    ELSE IF num >= 25 * den THEN "obese1"
    ELSE IF num >= 23 * den THEN "overweight"
    ELSE IF 2 * num >= 37 * den THEN "normal"
    ELSE "underweight"

(* round(bmi, 2): the fraction num/den (num >= 0, den > 0) to the nearest    *)
(* hundredth, in hundredths; an exact tie goes to the even hundredth.        *)
round2(num, den) ==
    LET q == (100 * num) \div den
        r == (100 * num) % den
    IN  IF 2 * r > den THEN q + 1
        ELSE IF 2 * r < den THEN q
        ELSE IF q % 2 = 0 THEN q ELSE q + 1

(* calorie_plan: bmi and target_bmi in hundredths, tdee in kcal.             *)
(* The three Korean plan labels are written cut, bulk and maintain.          *)
calorie_plan_inclusive(tdee, bmi, target_bmi) ==
    IF bmi >= target_bmi + 100 THEN <<tdee - 500, "cut">>
    ELSE IF bmi <= target_bmi - 100 THEN <<tdee + 300, "bulk">>
    ELSE <<tdee, "maintain">>

calorie_plan(tdee, bmi, target_bmi) ==
    IF bmi > target_bmi + 100 THEN <<tdee - 500, "cut">>
    ELSE IF bmi < target_bmi - 100 THEN <<tdee + 300, "bulk">>
    ELSE <<tdee, "maintain">>

(* The analysis comment chosen on diff = latest["bmi"] - target_bmi.         *)
analysis_comment(bmi, target_bmi) ==
    LET diff == bmi - target_bmi
    IN  IF diff > 300 THEN "danger"
        ELSE IF diff > 100 THEN "above"
        ELSE IF diff > -100 THEN "within"
        ELSE "below"

(* datetime.now().strftime("%Y-%m-%d %H:%M"): the seconds are dropped. *)
strftime(now) == now \div TicksPerMinute


-----------------------------------------------------------------------------
(* The table and the queries on it *)

StoreIds == {r.id : r \in store}

Range(s) == {s[i] : i \in 1..Len(s)}

IsSortedByDate(s) == \A i \in 1..Len(s) : \A j \in i..Len(s) : s[i].date <= s[j].date

(* ORDER BY date with no further key, and sort_values("date") with the      *)
(* default kind (quicksort, not stable): the rows in ascending date order;  *)
(* the order of rows with equal dates is not determined, so each is the set *)
(* of the sequences the call may return.  OrderByDate builds them from the  *)
(* back: any row of the greatest date may come last.                        *)
RECURSIVE OrderByDate(_)
OrderByDate(rows) ==
    IF rows = {} THEN {<<>>}
    ELSE UNION {{Append(s, r) : s \in OrderByDate(rows \ {r})} :
                r \in {x \in rows : \A y \in rows : y.date <= x.date}}

RECURSIVE OrderByDateDesc(_)
OrderByDateDesc(rows) ==
    IF rows = {} THEN {<<>>}
    ELSE UNION {{Append(s, r) : s \in OrderByDateDesc(rows \ {r})} :
                r \in {x \in rows : \A y \in rows : y.date >= x.date}}

load_data(rows) == OrderByDate(rows)

sort_values_descending(df) == OrderByDateDesc(Range(df))

sort_values(df) == OrderByDate(Range(df))

(* df[df["name"] == name]: the rows of that name, in the order of df. *)
select_rows(df, name) == SelectSeq(df, LAMBDA r : r.name = name)

(* sorted(df["name"].unique()) as a set: the options of the selectbox. *)
name_options(rows) == {r.name : r \in rows}

(* latest = user_df.iloc[-1]; prev = user_df.iloc[-2] if len(user_df) > 1 else None *)
latest_row(df) == df[Len(df)]

prev_row(df) == IF Len(df) > 1 THEN df[Len(df) - 1] ELSE NoRecord

(* INSERT INTO bmi_history: the id of an AUTOINCREMENT column is one more   *)
(* than the largest id the table ever held.                                 *)
next_id_rowid_reuse(rows, counter) ==
    IF rows = {} THEN 1
    ELSE 1 + (CHOOSE m \in {r.id : r \in rows} : \A r \in rows : r.id <= m)

next_id(rows, counter) == counter + 1

(* The row the save handler inserts: the status is taken from the unrounded *)
(* bmi, the stored bmi is the rounded one.                                   *)
new_row(id, name, now, height, weight) ==
    LET bmi == bmi_calc(height, weight)
    IN  [id |-> id, name |-> name, date |-> strftime(now), height |-> height,
         weight |-> weight, bmi |-> round2(bmi[1], bmi[2]),
         status |-> bmi_status(bmi[1], bmi[2])]

(* DELETE FROM bmi_history WHERE id IN (ids) *)
delete_rows_by_name(rows, ids) ==
    {r \in rows : \A d \in rows : d.id \in ids => d.name # r.name}

delete_rows(rows, ids) == {r \in rows : r.id \notin ids}

(* user_df = df[df["name"] == selected_name].sort_values("date") for       *)
(* df = load_data(): every sequence the two calls may return.               *)
histories(rows, name) ==
    UNION {sort_values(select_rows(df, name)) : df \in load_data(rows)}

(* The validation of the save handler: the error it shows, or "none". *)
save_error_name_unchecked(name, height) ==
    IF height <= 0 THEN "height_error" ELSE "none"

save_error(name, height) ==
    IF name = "" THEN "name_error"
    ELSE IF height <= 0 THEN "height_error"
    ELSE "none"

-----------------------------------------------------------------------------
(* One run of the main dashboard (load_data to prev) over the table `rows`, *)
(* with the selectbox on one of `choices`.  An empty table stops the run    *)
(* before anything is selected.                                             *)
Render(rows, choices) ==
    IF rows = {}
    THEN /\ selected_name' = ""
         /\ user_df' = <<>>
         /\ latest' = NoRecord
         /\ prev' = NoRecord
    ELSE \E s \in choices \cap name_options(rows) :
         \E u \in histories(rows, s) :
            /\ selected_name' = s
            /\ user_df' = u
            /\ latest' = latest_row(u)
            /\ prev' = prev_row(u)

(* The save button.  A rejected input shows its error and the same run goes *)
(* on to render; an accepted one inserts, commits and reruns the script.    *)
Save(name, height, weight) ==
    /\ IF save_error(name, height) # "none"
       THEN /\ msg' = save_error(name, height)
            /\ last_op' = "reject"
            /\ UNCHANGED <<store, seq, issued>>
       ELSE /\ seq < MaxId
            /\ LET id == next_id(store, seq)
               IN  /\ store' = store \cup {new_row(id, name, clock, height, weight)}
                   /\ seq' = id
                   /\ issued' = Append(issued, id)
            /\ msg' = "none"
            /\ last_op' = "insert"
    /\ Render(store', name_options(store'))
    /\ UNCHANGED <<clock, calc>>

(* The delete button: shown when at least one row of user_df is checked. *)
Delete(delete_ids) ==
    /\ delete_ids # {}
    /\ delete_ids \subseteq {r.id : r \in {x \in store : x.name = selected_name}}
    /\ store' = delete_rows(store, delete_ids)
    /\ msg' = "none"
    /\ last_op' = "delete"
    /\ Render(store', name_options(store'))
    /\ UNCHANGED <<seq, issued, clock, calc>>

(* The user picks another name in the selectbox: one run, no handler. *)
Select(name) ==
    /\ name \in name_options(store)
    /\ msg' = "none"
    /\ last_op' = "select"
    /\ Render(store, {name})
    /\ UNCHANGED <<store, seq, issued, clock, calc>>

(* The wall clock advances, or is set back (datetime.now() is local time). *)
Tick ==
    /\ clock < MaxClock
    /\ clock' = clock + 1
    /\ UNCHANGED <<store, seq, issued, selected_name, user_df,
                   latest, prev, msg, last_op, calc>>

ClockBack ==
    /\ clock > 0
    /\ \E t \in 0..(clock - 1) : clock' = t
    /\ UNCHANGED <<store, seq, issued, selected_name, user_df,
                   latest, prev, msg, last_op, calc>>

(* The analysis of one run for a latest bmi and a target: the status of a   *)
(* bmi, the calorie plan and the comment.                                   *)
Analyse ==
    /\ calc.pc = "input"
    /\ LET plan == calorie_plan(calc.tdee, calc.bmi, calc.target_bmi)
       IN  calc' = [calc EXCEPT !.pc = "done",
                                !.status = bmi_status(calc.bmi, 100),
                                !.cal = plan[1],
                                !.plan = plan[2],
                                !.comment = analysis_comment(calc.bmi, calc.target_bmi)]
    /\ UNCHANGED storeVars

InitStore ==
    /\ store = {}
    /\ seq = 0
    /\ issued = <<>>
    /\ clock = 0
    /\ selected_name = ""
    /\ user_df = <<>>
    /\ latest = NoRecord
    /\ prev = NoRecord
    /\ msg = "none"
    /\ last_op = "none"

Init == InitStore /\ calc = IdleCalc

InitCalc ==
    /\ InitStore
    /\ \E b \in BmiInputs, t \in TargetInputs, e \in TdeeInputs :
          calc = [IdleCalc EXCEPT !.pc = "input", !.bmi = b, !.target_bmi = t, !.tdee = e]

Next ==
    \/ \E n \in Names, h \in Heights, w \in Weights : Save(n, h, w)
    \/ \E ids \in SUBSET IdRange : Delete(ids)
    \/ \E n \in Names : Select(n)
    \/ Tick
    \/ ClockBack

NextMeasure ==
    \/ \E n \in MeasureNames, h \in MeasureHeights, w \in MeasureWeights : Save(n, h, w)
    \/ \E ids \in SUBSET IdRange : Delete(ids)
    \/ \E n \in MeasureNames : Select(n)
    \/ Tick
    \/ ClockBack

(* The same program while the wall clock only moves forward. *)
NextForward ==
    \/ \E n \in Names, h \in Heights, w \in Weights : Save(n, h, w)
    \/ \E ids \in SUBSET IdRange : Delete(ids)
    \/ \E n \in Names : Select(n)
    \/ Tick

NextCalc == Analyse

Spec == Init /\ [][Next]_vars

SpecMeasure == Init /\ [][NextMeasure]_vars

SpecForward == Init /\ [][NextForward]_vars

SpecCalc == InitCalc /\ [][NextCalc]_vars

-----------------------------------------------------------------------------
(* Claims *)

Errors == {"name_error", "height_error"}

RowsOf(name) == {r \in store : r.name = name}

(* C1: a save pressed with an empty name or with height <= 0 leaves the     *)
(* table exactly as it was and shows a validation error: every step either  *)
(* writes nothing and ends with an error shown, or is no save of an invalid *)
(* input.                                                                   *)
C1_InvalidSaveWritesNothing ==
    [][\/ (store' = store /\ seq' = seq /\ msg' \in Errors)
       \/ \A n \in Names, h \in Heights, w \in Weights :
             (n = "" \/ h <= 0) => ~Save(n, h, w)]_vars

(* C1 witness: a save was rejected while the table held rows. *)
C1_Witness == last_op = "reject" /\ msg = "height_error" /\ store # {}

(* C2: every stored row is self-consistent: its bmi is its weight over its  *)
(* squared height in metres rounded to two decimals, and its status is the  *)
(* classification of that stored bmi.                                       *)
C2_StoredRecordConsistent ==
    \A r \in store :
        /\ r.bmi = round2(1000 * r.weight, r.height * r.height)
        /\ r.status = bmi_status(r.bmi, 100)

(* C3: every stored row has a positive height and a positive weight. *)
C3_StoredPositive == \A r \in store : r.height > 0 /\ r.weight > 0

(* C4: for every name in the table, every history the run may use is        *)
(* exactly the rows of that name in ascending date order; the rendered      *)
(* user_df is such a history of the selected name, latest is its last row   *)
(* and prev its second-to-last row, or None when it has one row.            *)
C4_HistoryOrdered ==
    /\ \A n \in name_options(store) : \A u \in histories(store, n) :
          /\ Range(u) = RowsOf(n)
          /\ Len(u) = Cardinality(RowsOf(n))
          /\ IsSortedByDate(u)
    /\ store # {} =>
          /\ selected_name \in name_options(store)
          /\ user_df \in histories(store, selected_name)
          /\ Range(user_df) = RowsOf(selected_name)
          /\ Len(user_df) = Cardinality(RowsOf(selected_name))
          /\ IsSortedByDate(user_df)
          /\ latest = user_df[Len(user_df)]
          /\ Len(user_df) >= 2 => prev = user_df[Len(user_df) - 1]
          /\ Len(user_df) = 1 => prev = NoRecord

(* C4 witness: a history of two rows saved against the order of their       *)
(* dates, next to a row of another name.                                    *)
C4_Witness ==
    /\ Len(user_df) = 2
    /\ user_df[1].id > user_df[2].id
    /\ user_df[1].date < user_df[2].date
    /\ prev = user_df[1]
    /\ latest = user_df[2]
    /\ \E r \in store : r.name # selected_name

(* C5: deleting by ids removes exactly the rows whose id is listed and      *)
(* leaves the others as they were; with no id, or with ids that are not in  *)
(* the table, the table is unchanged; deleting twice is deleting once.      *)
C5_DeleteIdempotent ==
    \A ids \in SUBSET IdRange :
        LET once == delete_rows(store, ids)
        IN  /\ once \subseteq store
            /\ {r.id : r \in once} = StoreIds \ ids
            /\ Cardinality(once) = Cardinality(StoreIds \ ids)
            /\ delete_rows(once, ids) = once
            /\ (ids \cap StoreIds = {}) => once = store

(* C5 witness: after a delete, the deleted ids are gone, rows remain, and   *)
(* the same delete again changes nothing.                                   *)
C5_Witness ==
    /\ last_op = "delete"
    /\ store # {}
    /\ \E ids \in SUBSET Range(issued) :
          /\ ids # {}
          /\ ids \cap StoreIds = {}
          /\ delete_rows(store, ids) = store

(* C6: no two rows share an id, and the ids were issued in strictly         *)
(* increasing order, rows deleted since included.                           *)
C6_IdsUniqueMonotone ==
    /\ \A r1 \in store : \A r2 \in store : r1.id = r2.id => r1 = r2
    /\ \A i \in 1..Len(issued) : \A j \in 1..Len(issued) :
          i < j => issued[i] < issued[j]
    /\ StoreIds \subseteq Range(issued)
    /\ \A r \in store : r.id <= seq

(* C6 witness: a row inserted right after the row of the largest id so far  *)
(* had been deleted.                                                        *)
C6_Witness ==
    /\ last_op = "insert"
    /\ seq >= 2
    /\ seq \in StoreIds
    /\ (seq - 1) \notin StoreIds

(* C7: bmi_status returns the label of the one band that holds the bmi,     *)
(* each band closed below and open above.                                   *)
C7_StatusBands ==
    calc.pc = "done" =>
        LET b == calc.bmi
            st == calc.status
        IN  /\ st \in {"severely_obese", "obese2", "obese1", "overweight",
                       "normal", "underweight"}
            /\ (st = "severely_obese") <=> (b >= 3500)
            /\ (st = "obese2") <=> (3000 <= b /\ b < 3500)
            /\ (st = "obese1") <=> (2500 <= b /\ b < 3000)
            /\ (st = "overweight") <=> (2300 <= b /\ b < 2500)
            /\ (st = "normal") <=> (1850 <= b /\ b < 2300)
            /\ (st = "underweight") <=> (b < 1850)
            /\ (b = 2290) => st = "normal"
            /\ (b = 2300) => st = "overweight"
            /\ (b = 3499) => st = "obese2"
            /\ (b = 3500) => st = "severely_obese"

(* C7 witness: 35.0 was classified. *)
C7_Witness == calc.pc = "done" /\ calc.bmi = 3500 /\ calc.status = "severely_obese"

(* C8: calorie_plan gives cut with tdee - 500 exactly above target + 1,     *)
(* bulk with tdee + 300 exactly below target - 1, and maintain with tdee    *)
(* otherwise, both boundaries included.                                     *)
C8_PlanPartition ==
    calc.pc = "done" =>
        LET b == calc.bmi
            t == calc.target_bmi
        IN  /\ calc.plan \in {"cut", "bulk", "maintain"}
            /\ (calc.plan = "cut" /\ calc.cal = calc.tdee - 500) <=> (b > t + 100)
            /\ (calc.plan = "bulk" /\ calc.cal = calc.tdee + 300) <=> (b < t - 100)
            /\ (calc.plan = "maintain" /\ calc.cal = calc.tdee)
                  <=> (t - 100 <= b /\ b <= t + 100)
            /\ (calc.tdee = 2000 /\ b = 2700 /\ t = 2200)
                  => (calc.plan = "cut" /\ calc.cal = 1500)
            /\ (calc.tdee = 2000 /\ b = 2200 /\ t = 2200)
                  => (calc.plan = "maintain" /\ calc.cal = 2000)
            /\ (calc.tdee = 2000 /\ b = 2000 /\ t = 2200)
                  => (calc.plan = "bulk" /\ calc.cal = 2300)

(* C8 witness: a bmi exactly one above the target was planned. *)
C8_Witness ==
    /\ calc.pc = "done"
    /\ calc.bmi = calc.target_bmi + 100
    /\ calc.plan = "maintain"
    /\ calc.cal = calc.tdee

(* C9: the plan and the comment of one run agree: maintain with the "within *)
(* range" comment, cut with one of the two "above" comments, bulk with the  *)
(* "below" comment.                                                         *)
C9_CommentAgreesWithPlan ==
    calc.pc = "done" =>
        /\ (calc.plan = "maintain") <=> (calc.comment = "within")
        /\ (calc.plan = "cut") <=> (calc.comment \in {"danger", "above"})
        /\ (calc.plan = "bulk") <=> (calc.comment = "below")

(* C10: while the clock never moves back, latest is the remaining row of    *)
(* the selected name saved last (greatest id) and prev the one saved just   *)
(* before it.                                                               *)
C10_LatestIsLastSaved ==
    store # {} =>
        /\ \A r \in RowsOf(selected_name) : r.id <= latest.id
        /\ Len(user_df) >= 2 =>
              \A r \in RowsOf(selected_name) \ {latest} : r.id <= prev.id

=============================================================================
